---- MODULE Spec2Model ----
(***************************************************************************)
(* cardiotensor: the orientation pipeline (compute_orientation and its     *)
(* per-slice task compute_slice_angles_and_anisotropy) and the streamline  *)
(* export (find_consecutive_points, write_am_file, amira_writer).          *)
(*                                                                         *)
(* Spec      : runs of compute_orientation over one output directory.      *)
(* SpecTrace : find_consecutive_points on a field, a seed, its parameters. *)
(* SpecAm    : amira_writer on the eigen_vec files of an output directory. *)
(***************************************************************************)
EXTENDS Integers, Sequences, FiniteSets, TLC

(***************************************************************************)
(* Bounds of the model.                                                    *)
(***************************************************************************)
\* number of slices of the input volume (N_img)
NImg == 3
\* number of worker processes of the pool (mp.cpu_count())
NumCpu == 2

\* RHO, in halves (0, 0.5, 1.5): math.ceil gives paddings 0, 1, 2
RhoHalves == {0, 1, 3}
\* OUTPUT_FORMAT values of the configuration
Formats == {"tif", "jp2"}
\* N_SLICE_TEST values of the configuration (one of them exceeds N_img)
TestSlices == {0, 1, NImg + 1}
\* MASK_PATH is empty: no mask
NoMaskPath == -1
\* the first (Z) component of the eigenvectors calculate_structure_tensor
\* returns for a slice, the vectors taken along the Z axis
ZComponents == {-2, 2}
\* the number of mask images (N_mask) under MASK_PATH, or NoMaskPath
MaskCounts == {NoMaskPath, 0, 2, 5}
\* (start_index, end_index) arguments of a run
Windows == {w \in (0..NImg) \X (0..NImg) : w[1] < w[2]}

\* the two landmarks POINT_MITRAL_VALVE and POINT_APEX of the configuration
PT_MV == <<0, 0, 0>>
PT_APEX == <<3, 5, NImg - 1>>

(***************************************************************************)
(* Numeric helpers.  Reals are fixed-point: a value is n / d for a fixed d. *)
(***************************************************************************)
\* numpy's np.round / np.around of n/d (d > 0): round half to even
RoundHalfEven(n, d) ==
    LET q == n \div d
        r == n % d
    IN  IF 2 * r < d THEN q
        ELSE IF 2 * r > d THEN q + 1
        ELSE IF q % 2 = 0 THEN q ELSE q + 1

\* math.ceil of h/2
CeilHalves(h) == (h + 1) \div 2

Min(a, b) == IF a < b THEN a ELSE b
Max(a, b) == IF a > b THEN a ELSE b

(***************************************************************************)
(* State of the orientation pipeline.                                      *)
(***************************************************************************)
VARIABLES
    conf,     \* the parameter file: IS_VECTORS, IS_TEST, OUTPUT_FORMAT, RHO, N_SLICE_TEST
    files,    \* the paths that exist under OUTPUT_DIR
    pc,       \* the stage compute_orientation is at
    args,     \* start_index, end_index of the current call
    run,      \* the locals of the current call
    tasks     \* the slice tasks of DISPATCH_SLICES, by local index z

ovars == <<conf, files, pc, args, run, tasks>>

\* a path of the artifact layout: {OUTPUT_DIR}/<dir>/<dir>_<idx:06d>.<ext>
Path(dir, idx, ext) == <<dir, idx, ext>>

AngleDirs == <<"HA", "IA", "FA">>

\* the three paths compute_slice_angles_and_anisotropy tests (".tif" is fixed)
CheckedAnglePaths(idx) == {Path(AngleDirs[i], idx, "tif") : i \in 1..3}

\* the path write_vector_field writes
VectorPath(idx) == Path("eigen_vec", idx, "npy")

\* the i-th of the paths write_images writes: {dir}/{dir}_{idx:06d}.{format}
ImagePath(i, idx, fmt) == Path(AngleDirs[i], idx, fmt)

\* interpolate_points: N_img points, one per global slice index, linearly
\* interpolated from point1 to point2; each coordinate is a numerator over
\* (N_img - 1)
InterpolatePoints(point1, point2, N_img) ==
    [g \in 1..N_img |->
        [c \in 1..3 |-> point1[c] * (N_img - 1) + (g - 1) * (point2[c] - point1[c])]]

\* np.around of one center-line point
Around(point) == [c \in 1..3 |-> RoundHalfEven(point[c], NImg - 1)]

\* adjust_start_end_index
AdjustStartEndIndex(start_index, end_index, N_img, padding_start, padding_end, is_test, n_slice) ==
    IF is_test
    THEN <<Max(n_slice - padding_start, 0), Min(n_slice + 1 + padding_end, N_img)>>
    ELSE <<Max(start_index - padding_start, 0), Min(end_index + padding_end, N_img)>>

\* remove_padding on one array, given as the sequence of its Z slices
RemovePadding(arr, padding_start, padding_end) ==
    SubSeq(arr, padding_start + 1, Len(arr) - padding_end)

NoRun ==
    [padding_start |-> 0, padding_end |-> 0,
     start_index_padded |-> 0, end_index_padded |-> 0,
     volume |-> <<>>, vec |-> <<>>, center_line |-> <<>>,
     mask_slices |-> 0, mask |-> <<>>, vec_z |-> <<>>]

NoTasks == <<>>

OInit ==
    /\ conf \in [IS_VECTORS : BOOLEAN, IS_TEST : BOOLEAN, OUTPUT_FORMAT : Formats,
                 RHO : RhoHalves, N_SLICE_TEST : TestSlices, N_MASK : MaskCounts]
    /\ ~conf.IS_TEST => conf.N_SLICE_TEST = 0
    /\ files = {}
    /\ pc = "idle"
    /\ args = [start_index |-> 0, end_index |-> 0]
    /\ run = NoRun
    /\ tasks = NoTasks

Stopped == pc \in {"idle", "done", "exit", "killed", "raised"}

(***************************************************************************)
(* compute_orientation, stage by stage.                                    *)
(***************************************************************************)
\* the call: the parameter file is read
StartRun(s, e) ==
    /\ Stopped
    /\ pc' = "check_resume"
    /\ args' = [start_index |-> s, end_index |-> e]
    /\ run' = NoRun
    /\ tasks' = NoTasks
    /\ UNCHANGED <<conf, files>>

\* read_conf_file raises: sys.exit
ReadConfFails(s, e) ==
    /\ Stopped
    /\ pc' = "exit"
    /\ args' = [start_index |-> s, end_index |-> e]
    /\ run' = NoRun
    /\ tasks' = NoTasks
    /\ UNCHANGED <<conf, files>>

\* the four paths the resume check tests for one index
ResumePaths(idx) == CheckedAnglePaths(idx) \cup {VectorPath(idx)}

\* is_already_done of the resume check
IsAlreadyDone ==
    /\ args.end_index # 0
    /\ \A idx \in args.start_index .. args.end_index - 1 : ResumePaths(idx) \subseteq files

CheckResume ==
    /\ pc = "check_resume"
    /\ pc' = IF ~conf.IS_TEST /\ IsAlreadyDone THEN "done" ELSE "padding"
    /\ UNCHANGED <<conf, files, args, run, tasks>>

\* a padding that is never clamped
PaddingStartUnclamped(RHO, start_index, IS_TEST) == CeilHalves(RHO)

\* padding_start: math.ceil(RHO), clamped to start_index in non-test mode
PaddingStart(RHO, start_index, IS_TEST) ==
    IF ~IS_TEST /\ CeilHalves(RHO) > start_index THEN start_index ELSE CeilHalves(RHO)

\* padding_end: math.ceil(RHO), clamped to N_img - end_index in non-test mode
PaddingEnd(RHO, end_index, N_img, IS_TEST) ==
    IF ~IS_TEST /\ CeilHalves(RHO) > N_img - end_index
    THEN N_img - end_index ELSE CeilHalves(RHO)

\* volume information, center line, padding and the padded window
CalculatePadding ==
    /\ pc = "padding"
    /\ LET ps == PaddingStart(conf.RHO, args.start_index, conf.IS_TEST)
           pe == PaddingEnd(conf.RHO, args.end_index, NImg, conf.IS_TEST)
           w == AdjustStartEndIndex(args.start_index, args.end_index, NImg, ps, pe,
                                    conf.IS_TEST, conf.N_SLICE_TEST)
       IN  IF conf.IS_TEST /\ conf.N_SLICE_TEST > NImg
           THEN /\ pc' = "exit"
                /\ run' = run
           ELSE /\ pc' = "load_volume"
                /\ run' = [run EXCEPT !.padding_start = ps, !.padding_end = pe,
                                      !.start_index_padded = w[1],
                                      !.end_index_padded = w[2],
                                      !.center_line = InterpolatePoints(PT_MV, PT_APEX, NImg)]
    /\ UNCHANGED <<conf, files, args, tasks>>

\* the slices start_index_padded .. end_index_padded - 1 of the volume
LoadVolume ==
    /\ pc = "load_volume"
    /\ pc' = "mask"
    /\ run' = [run EXCEPT !.volume =
                 [i \in 1..Max(run.end_index_padded - run.start_index_padded, 0)
                    |-> run.start_index_padded + i - 1]]
    /\ UNCHANGED <<conf, files, args, tasks>>

\* int(n / d), d > 0: truncation toward zero
TruncDiv(n, d) == IF n >= 0 THEN n \div d ELSE -((-n) \div d)

\* start_index_padded_mask: int(start_index_padded / binning_factor - 1),
\* not below 0, with binning_factor = N_img / N_mask
MaskStartIndex(start_index_padded, N_img, N_mask) ==
    Max(TruncDiv(start_index_padded * N_mask - N_img, N_img), 0)

\* a mask end index without the slice of margin
MaskEndIndexNoMargin(end_index_padded, N_img, N_mask) ==
    Min(TruncDiv(end_index_padded * N_mask, N_img), N_mask)

\* end_index_padded_mask: int(end_index_padded / binning_factor + 1), not
\* above N_mask
MaskEndIndex(end_index_padded, N_img, N_mask) ==
    Min(TruncDiv(end_index_padded * N_mask + N_img, N_img), N_mask)

\* mask.shape[0] after zoom(mask, binning_factor, order=0)
ZoomedSlices(slices, N_img, N_mask) == RoundHalfEven(slices * N_img, N_mask)

\* start_index_mask_upscaled
MaskStartUpscaled(start_index_padded_mask, start_index_padded, N_img, N_mask) ==
    LET d == start_index_padded_mask * N_img - start_index_padded * N_mask
    IN  (IF d < 0 THEN -d ELSE d) \div N_mask

\* mask.shape[0] after the crop mask[start_index_mask_upscaled:end_index_mask_upscaled]
AlignedSlices(start_index_padded, end_index_padded, volume_slices, N_img, N_mask) ==
    LET sm == MaskStartIndex(start_index_padded, N_img, N_mask)
        em == MaskEndIndex(end_index_padded, N_img, N_mask)
        up == ZoomedSlices(Max(em - sm, 0), N_img, N_mask)
        su == MaskStartUpscaled(sm, start_index_padded, N_img, N_mask)
        eu == Min(su + volume_slices, up)
    IN  Max(eu - su, 0)

\* the mask stage: without MASK_PATH nothing is done; without mask images the
\* run exits; else the mask is loaded, zoomed, cropped and copied slice by
\* slice into mask_resized = np.empty_like(volume), which becomes the mask
LoadMask ==
    /\ pc = "mask"
    /\ IF conf.N_MASK = NoMaskPath
       THEN /\ pc' = "tensor"
            /\ run' = run
       ELSE IF conf.N_MASK = 0
       THEN /\ pc' = "exit"
            /\ run' = run
       ELSE LET n == AlignedSlices(run.start_index_padded, run.end_index_padded,
                                   Len(run.volume), NImg, conf.N_MASK)
            IN  /\ pc' = "tensor"
                /\ run' = [run EXCEPT
                             !.mask_slices = n,
                             !.mask = [i \in 1 .. Len(run.volume) |->
                                          IF i <= n THEN "resized" ELSE "uninitialized"]]
    /\ UNCHANGED <<conf, files, args, tasks>>

\* calculate_structure_tensor: one vector slice per loaded slice
ComputeTensor ==
    /\ pc = "tensor"
    /\ pc' = "strip"
    /\ \E c \in ZComponents :
         run' = [run EXCEPT !.vec = run.volume,
                            !.vec_z = [i \in 1 .. Len(run.volume) |-> c]]
    /\ UNCHANGED <<conf, files, args, tasks>>

\* vec / np.linalg.norm(vec, axis=0), on the first component of a vector along
\* Z; the flip of the sign is commented out
NormalizeVectors(vec_z) ==
    [i \in 1 .. Len(vec_z) |-> vec_z[i] \div (IF vec_z[i] < 0 THEN -vec_z[i] ELSE vec_z[i])]

\* remove_padding, the cut of the center line to the padded window, and the
\* normalisation of the vectors
StripPadding ==
    /\ pc = "strip"
    /\ pc' = "dispatch"
    /\ run' = [run EXCEPT
                 !.volume = RemovePadding(run.volume, run.padding_start, run.padding_end),
                 !.vec = RemovePadding(run.vec, run.padding_start, run.padding_end),
                 !.vec_z = NormalizeVectors(
                              RemovePadding(run.vec_z, run.padding_start, run.padding_end)),
                 !.center_line = SubSeq(run.center_line, run.start_index_padded + 1,
                                        run.end_index_padded)]
    /\ UNCHANGED <<conf, files, args, tasks>>

(***************************************************************************)
(* DISPATCH_SLICES and compute_slice_angles_and_anisotropy.                *)
(***************************************************************************)
\* the argument tuples of the slice tasks, one per z in range(vec.shape[1]);
\* existed records whether the paths the task tests were there when the
\* tasks were submitted
SliceTasks ==
    [z \in 0 .. Len(run.vec) - 1 |->
        [pc |-> "pending", center_point |-> Around(run.center_line[z + 1]),
         vector_field_slice |-> run.vec_z[z + 1],
         existed |-> CheckedAnglePaths(args.start_index + z) \subseteq files]]

\* the pool (non-test mode) or the loop (test mode) is set up
Dispatch ==
    /\ pc = "dispatch"
    /\ pc' = "running"
    /\ tasks' = SliceTasks
    /\ UNCHANGED <<conf, files, args, run>>

\* the task is over: it returned, or it raised
Finished(z) == tasks[z].pc \in {"returned", "done", "raised"}
Active(z) == tasks[z].pc \in {"computed", "wrote_images"}

\* MULTIPROCESS and not IS_TEST: any pending task may start while a worker is
\* free; otherwise the loop runs the tasks one by one in the order of z
MayStart(z) ==
    IF ~conf.IS_TEST
    THEN Cardinality({y \in DOMAIN tasks : Active(y)}) < NumCpu
    ELSE \A y \in DOMAIN tasks : y < z => Finished(y)

\* the test all(os.path.exists(path) for path in paths)
AllPathsExist(start_index, z) == CheckedAnglePaths(start_index + z) \subseteq files

\* the early return of compute_slice_angles_and_anisotropy
SkipsSlice(start_index, z) == ~conf.IS_TEST /\ AllPathsExist(start_index, z)

\* the task starts: the exists test, then FA, rotation and the two angles
TaskBegin(z) ==
    /\ pc = "running"
    /\ z \in DOMAIN tasks
    /\ tasks[z].pc = "pending"
    /\ MayStart(z)
    /\ tasks' = [tasks EXCEPT ![z].pc = IF SkipsSlice(args.start_index, z)
                                        THEN "returned" ELSE "computed"]
    /\ UNCHANGED <<conf, files, pc, args, run>>

\* IS_TEST: plot_images, nothing is written
TaskPlot(z) ==
    /\ pc = "running"
    /\ z \in DOMAIN tasks
    /\ conf.IS_TEST
    /\ tasks[z].pc = "computed"
    /\ tasks' = [tasks EXCEPT ![z].pc = "done"]
    /\ UNCHANGED <<conf, files, pc, args, run>>

\* a statement of the task raises after the exists test. In the loop (test
\* mode) the exception leaves compute_orientation; in the pool it is stored in
\* the result of starmap_async, which the code only waits for
TaskRaises(z) ==
    /\ pc = "running"
    /\ z \in DOMAIN tasks
    /\ tasks[z].pc = "computed"
    /\ IF ~conf.IS_TEST
       THEN /\ tasks' = [tasks EXCEPT ![z].pc = "raised"]
            /\ UNCHANGED <<pc, run>>
       ELSE /\ pc' = "raised"
            /\ run' = NoRun
            /\ tasks' = NoTasks
    /\ UNCHANGED <<conf, files, args>>

\* write_images: the three files HA, IA, FA of index start_index + z, in the
\* output format, written together
WriteImages(start_index, OUTPUT_FORMAT, z) ==
    {ImagePath(i, start_index + z, OUTPUT_FORMAT) : i \in 1..3}

\* a slice task whose write stops after the HA file
TaskWriteHelixOnly(z) ==
    /\ pc = "running"
    /\ z \in DOMAIN tasks
    /\ ~conf.IS_TEST
    /\ tasks[z].pc = "computed"
    /\ files' = files \cup {ImagePath(1, args.start_index + z, conf.OUTPUT_FORMAT)}
    /\ tasks' = [tasks EXCEPT ![z].pc = IF conf.IS_VECTORS THEN "wrote_images" ELSE "done"]
    /\ UNCHANGED <<conf, pc, args, run>>

\* the call of write_images
TaskWriteImages(z) ==
    /\ pc = "running"
    /\ z \in DOMAIN tasks
    /\ ~conf.IS_TEST
    /\ tasks[z].pc = "computed"
    /\ files' = files \cup WriteImages(args.start_index, conf.OUTPUT_FORMAT, z)
    /\ tasks' = [tasks EXCEPT ![z].pc = IF conf.IS_VECTORS THEN "wrote_images" ELSE "done"]
    /\ UNCHANGED <<conf, pc, args, run>>

\* write_vector_field
WriteVectorField(start_index, z) == VectorPath(start_index + z)

\* a slice task that writes the vector file under the name of the first
\* index of the window, whatever its z
TaskWriteVectorShared(z) ==
    /\ pc = "running"
    /\ z \in DOMAIN tasks
    /\ tasks[z].pc = "wrote_images"
    /\ files' = files \cup {WriteVectorField(args.start_index, 0)}
    /\ tasks' = [tasks EXCEPT ![z].pc = "done"]
    /\ UNCHANGED <<conf, pc, args, run>>

\* the call of write_vector_field
TaskWriteVector(z) ==
    /\ pc = "running"
    /\ z \in DOMAIN tasks
    /\ tasks[z].pc = "wrote_images"
    /\ LET p == WriteVectorField(args.start_index, z)
       IN  /\ files' = files \cup {p}
           /\ tasks' = [tasks EXCEPT ![z].pc = "done"]
    /\ UNCHANGED <<conf, pc, args, run>>

\* result.wait() returns, or the loop ends: "Finished processing slices"
Finish ==
    /\ pc = "running"
    /\ \A z \in DOMAIN tasks : Finished(z)
    /\ pc' = "done"
    /\ run' = NoRun
    /\ tasks' = NoTasks
    /\ UNCHANGED <<conf, files, args>>

\* the process is interrupted
Kill ==
    /\ ~Stopped
    /\ pc' = "killed"
    /\ run' = NoRun
    /\ tasks' = NoTasks
    /\ UNCHANGED <<conf, files, args>>

(***************************************************************************)
(* The streamline tracer, find_consecutive_points.                         *)
(* Coordinates and vector components are fixed-point, in tenths: a point   *)
(* or a vector is a triple of integers (z, y, x), and a component of a     *)
(* vector may be NaN.                                                      *)
(***************************************************************************)
\* the largest num_steps
MaxSteps == 3

\* vector_field.shape[1:], the (Z, Y, X) extent of the volume
Shape == <<4, 3, 3>>

Voxels == (0 .. Shape[1] - 1) \X (0 .. Shape[2] - 1) \X (0 .. Shape[3] - 1)

NaN == -1000000
NaNVec == <<NaN, NaN, NaN>>

\* unit vectors, in tenths
Dirs == {<<10, 0, 0>>, <<-10, 0, 0>>, <<0, 10, 0>>, <<0, 0, -10>>,
         <<6, 8, 0>>, <<-8, 0, -6>>}

\* segment_length, in halves (0.5, 1.0, 2.5)
SegmentLengths == {1, 2, 5}

\* angle_threshold, in degrees
AngleThresholds == {60, 90}

\* the sets of voxels where a field departs from its base direction
HoleSets == {{}, {<<1, 1, 1>>}, {<<2, 1, 1>>, <<2, 1, 2>>}}

\* what a field holds at the voxels of its hole set
HoleVectors == {NaNVec, <<10, 0, 0>>, <<0, 10, 0>>, <<6, 8, 0>>}

\* the vector fields: one direction everywhere, except at the voxels of a hole
\* set, which hold NaN or another direction
Fields ==
    {[v \in Voxels |-> IF v \in h THEN w ELSE d] :
        d \in Dirs, h \in HoleSets, w \in HoleVectors}

VARIABLES
    vector_field,   \* the field (3, Z, Y, X), as a function of the voxel
    tp,             \* the arguments of find_consecutive_points
    tr              \* its locals

tvars == <<vector_field, tp, tr>>

IsNaN(x) == x = NaN

\* np.isnan(v).any()
AnyNaN(v) == \E c \in 1..3 : IsNaN(v[c])

\* int(np.round(x)) of a coordinate in tenths
RoundTenths(x) == RoundHalfEven(x, 10)

\* int(x) of a coordinate in tenths: truncation toward zero
TruncTenths(x) == IF x >= 0 THEN x \div 10 ELSE -((-x) \div 10)

\* 0 <= z < shape[1] and 0 <= y < shape[2] and 0 <= x < shape[3]
InBounds(p) == \A c \in 1..3 : 0 <= p[c] /\ p[c] < Shape[c]

Dot(u, v) == u[1] * v[1] + u[2] * v[2] + u[3] * v[3]

\* cos(t) as a fraction <<p, q>>, q > 0, for the thresholds in use
CosDeg(t) ==
    CASE t = 0 -> <<1, 1>>
      [] t = 60 -> <<1, 2>>
      [] t = 90 -> <<0, 1>>
      [] t = 120 -> <<-1, 2>>
      [] OTHER -> <<-1, 1>>

\* the comparison turned round: angle_between_vectors(vec1, vec2) <= threshold
AngleWithin(vec1, vec2, threshold) ==
    LET d == Dot(vec1, vec2)
        m1 == IF Dot(vec1, vec1) = 0 THEN 1 ELSE Dot(vec1, vec1)
        m2 == IF Dot(vec2, vec2) = 0 THEN 1 ELSE Dot(vec2, vec2)
        c == CosDeg(threshold)
        l == d * c[2]
    IN  IF c[1] >= 0
        THEN l >= 0 /\ l * l >= c[1] * c[1] * m1 * m2
        ELSE l >= 0 \/ l * l <= c[1] * c[1] * m1 * m2

\* angle_between_vectors(vec1, vec2) > threshold, for 1-D vectors: the angle
\* is arccos of the clipped dot / (|vec1| |vec2|), the magnitudes floored at
\* epsilon (a zero magnitude only makes the quotient 0)
AngleExceeds(vec1, vec2, threshold) ==
    LET d == Dot(vec1, vec2)
        m1 == IF Dot(vec1, vec1) = 0 THEN 1 ELSE Dot(vec1, vec1)
        m2 == IF Dot(vec2, vec2) = 0 THEN 1 ELSE Dot(vec2, vec2)
        c == CosDeg(threshold)
        \* cos(angle) < c[1] / c[2], where cos(angle) = d / sqrt(m1 * m2)
        l == d * c[2]
    IN  IF c[1] >= 0
        THEN IF l < 0 THEN TRUE
             ELSE l * l < c[1] * c[1] * m1 * m2
        ELSE l < 0 /\ l * l > c[1] * c[1] * m1 * m2

\* vector_field[:, z, y, x] * segment_length (segment_length in halves)
DirectionVector(field, voxel, segment_length) ==
    [c \in 1..3 |-> IF IsNaN(field[voxel][c]) THEN NaN
                    ELSE (field[voxel][c] * segment_length) \div 2]

\* direction_vector_tmp.any(): false for the empty array and for a zero vector
AnyNonZero(v) == \E c \in DOMAIN v : v[c] # 0

\* the state of the function before the loop
TraceStart(start_point) ==
    [pc |-> "loop",
     consecutive_points |-> << [c \in 1..3 |-> 10 * start_point[c]] >>,
     current_point |-> [c \in 1..3 |-> 10 * start_point[c]],
     direction_vector_tmp |-> <<>>,
     i |-> 0,
     stop |-> "none"]

\* the value of current_point after a step that stays in bounds
NextCurrentPoint(next_point) == [c \in 1..3 |-> 10 * TruncTenths(next_point[c])]

\* one iteration of the loop of find_consecutive_points
LoopBody(t, field, segment_length, angle_threshold) ==
    LET voxel == [c \in 1..3 |-> RoundTenths(t.current_point[c])]
    IN  IF ~InBounds(voxel)
        THEN [t EXCEPT !.pc = "return", !.stop = "current_out_of_bounds"]
        ELSE
        LET direction_vector == DirectionVector(field, voxel, segment_length)
        IN  IF AnyNaN(direction_vector)
            THEN [t EXCEPT !.pc = "return", !.stop = "nan"]
            ELSE IF /\ AnyNonZero(t.direction_vector_tmp)
                    /\ AngleExceeds(t.direction_vector_tmp, direction_vector,
                                    angle_threshold)
            THEN [t EXCEPT !.pc = "return", !.stop = "angle"]
            ELSE
            LET next_point == [c \in 1..3 |-> t.current_point[c] + direction_vector[c]]
                next_point_int == [c \in 1..3 |-> RoundTenths(next_point[c])]
            IN  IF InBounds(next_point_int)
                THEN [t EXCEPT
                        !.consecutive_points = Append(t.consecutive_points, next_point),
                        !.current_point = NextCurrentPoint(next_point),
                        !.direction_vector_tmp = direction_vector,
                        !.i = t.i + 1]
                ELSE [t EXCEPT !.pc = "return", !.stop = "next_out_of_bounds"]

\* for _ in range(num_steps): one iteration, or the end of the loop
TraceStep ==
    /\ tr.pc = "loop"
    /\ tr' = IF tr.i < tp.num_steps
             THEN LoopBody(tr, vector_field, tp.segment_length, tp.angle_threshold)
             ELSE [tr EXCEPT !.pc = "return", !.stop = "num_steps"]
    /\ UNCHANGED <<vector_field, tp>>

(***************************************************************************)
(* write_am_file, scale_points and amira_writer.                           *)
(***************************************************************************)
\* the largest num_ini_points
MaxIniPoints == 2

\* angle_threshold of amira_writer (its default)
AmAngleThreshold == 60

\* segment_min_length_threshold values
MinLengths == {1, 2, 3}

\* (start_index, bin_factor, VOXEL_SIZE) of a call; bin_factor 0 is None
AmArgs == {<<0, 0, 1>>, <<1, 0, 2>>, <<2, 2, 1>>}

Column == {<<z, 1, 1>> : z \in 0 .. Shape[1] - 1}

\* the sets of valid voxels of the eigen_vec files read by amira_writer
ValidSets == {{}, {<<1, 1, 1>>}, {<<0, 1, 1>>, <<1, 2, 1>>}, Column}

\* the fields read from the eigen_vec files: a direction on the valid voxels,
\* NaN on the masked ones
AmFields ==
    {[v \in Voxels |-> IF v \in h THEN d ELSE NaNVec] : d \in Dirs, h \in ValidSets}

\* the HA volume read from the HA files: a value per voxel
HAVolume(voxel) == 100 * voxel[1] + 10 * voxel[2] + voxel[3]

VARIABLES
    ap,    \* the arguments of amira_writer and what it finds on disk
    am     \* its locals, and the file it writes

avars == <<ap, am>>

RECURSIVE Flatten(_)
\* the points of the segments, one after the other
Flatten(segments) ==
    IF segments = <<>> THEN <<>>
    ELSE Head(segments) \o Flatten(Tail(segments))

RECURSIVE SumLen(_)
\* sum(len(segment) for segment in segments)
SumLen(segments) ==
    IF segments = <<>> THEN 0 ELSE Len(Head(segments)) + SumLen(Tail(segments))

RECURSIVE VertexLines(_)
\* the @1 section: start and end of every segment of two points or more
VertexLines(segments) ==
    IF segments = <<>> THEN <<>>
    ELSE LET segment == Head(segments)
         IN  (IF Len(segment) >= 2
              THEN <<segment[1], segment[Len(segment)]>>
              ELSE <<>>) \o VertexLines(Tail(segments))

\* a header that counts one vertex per streamline
DefineVertexOnePerSegment(consecutive_points_list) == Len(consecutive_points_list)

\* the "define VERTEX" line
DefineVertex(consecutive_points_list) == Len(consecutive_points_list) * 2

\* an @6 section written in the reverse order
HALinesReversed(consecutive_points_list, HA_angle) ==
    [n \in 1 .. Len(HA_angle) |-> HA_angle[Len(HA_angle) + 1 - n]]

\* the @6 section
HALines(consecutive_points_list, HA_angle) == HA_angle

\* write_am_file: the header counts and the seven data sections
WriteAmFile(consecutive_points_list, HA_angle, z_angle) ==
    [VERTEX |-> DefineVertex(consecutive_points_list),
     EDGE |-> Len(consecutive_points_list),
     POINT |-> SumLen(consecutive_points_list),
     s1 |-> VertexLines(consecutive_points_list),
     s2 |-> [i \in 1 .. Len(consecutive_points_list) |-> <<(i - 1) * 2, (i - 1) * 2 + 1>>],
     s3 |-> [i \in 1 .. Len(consecutive_points_list) |-> Len(consecutive_points_list[i])],
     s4 |-> Flatten(consecutive_points_list),
     s5 |-> [i \in 1 .. SumLen(consecutive_points_list) |-> "1.0"],
     s6 |-> HALines(consecutive_points_list, HA_angle),
     s7 |-> z_angle]

\* scale_points
ScalePoints(consecutive_points, pixel_size) ==
    [i \in 1 .. Len(consecutive_points) |->
        [j \in 1 .. Len(consecutive_points[i]) |->
            [c \in 1..3 |-> consecutive_points[i][j][c] * pixel_size]]]

\* the reordering of every point from (z, y, x) to (x, y, z)
ReorderPoints(consecutive_points) ==
    [i \in 1 .. Len(consecutive_points) |->
        [j \in 1 .. Len(consecutive_points[i]) |->
            <<consecutive_points[i][j][3], consecutive_points[i][j][2],
              consecutive_points[i][j][1]>>]]

\* vector_field[:, vector_field[0] > 0] *= -1 (NaN > 0 is false)
AlignVectors(field) ==
    [v \in Voxels |->
        IF ~IsNaN(field[v][1]) /\ field[v][1] > 0
        THEN [c \in 1..3 |-> IF IsNaN(field[v][c]) THEN NaN ELSE -field[v][c]]
        ELSE field[v]]

\* np.argwhere(mask_volume == 1): the voxels with no NaN component
ValidIndices(field) == {v \in Voxels : ~AnyNaN(field[v])}

\* picks with replacement
RandomChoicesWithReplacement(valid_indices, num) == [1 .. num -> valid_indices]

\* the results of np.random.choice(n, num, replace=False): num distinct picks
RandomChoices(valid_indices, num) ==
    {q \in [1 .. num -> valid_indices] : \A i, j \in 1 .. num : i # j => q[i] # q[j]}

\* the voxel at int(point[0] - start_index), int(point[1]), int(point[2])
PointVoxel(point, start_index) ==
    <<TruncTenths(point[1] - 10 * start_index), TruncTenths(point[2]),
      TruncTenths(point[3])>>

\* HA_volume[...] at the voxel of a point
HAOfPoint(point, start_index) == HAVolume(PointVoxel(point, start_index))

\* degrees(arccos(abs(vector[0]) / norm(vector))), as the pair
\* <<|vector[0]|, |vector|^2>> that fixes it; NaN when a component is NaN
\* (written <<NaN, NaN>>)
ZAngle(vector) ==
    IF AnyNaN(vector) THEN <<NaN, NaN>>
    ELSE <<IF vector[1] < 0 THEN -vector[1] ELSE vector[1], Dot(vector, vector)>>

ZAngleOfPoint(field, point, start_index) == ZAngle(field[PointVoxel(point, start_index)])

\* a writer that keeps every streamline
KeepsEveryStreamline(consecutive_points, segment_min_length_threshold) == TRUE

\* the keep test of a traced streamline
KeepsStreamline(consecutive_points, segment_min_length_threshold) ==
    Len(consecutive_points) >= segment_min_length_threshold

NoTrace ==
    [pc |-> "idle", consecutive_points |-> <<>>, current_point |-> <<0, 0, 0>>,
     direction_vector_tmp |-> <<>>, i |-> 0, stop |-> "none"]

NoArgs == [start_point |-> <<0, 0, 0>>, num_steps |-> 0, segment_length |-> 0,
           angle_threshold |-> 0]

NoFile == [VERTEX |-> 0, EDGE |-> 0, POINT |-> 0, s1 |-> <<>>, s2 |-> <<>>,
           s3 |-> <<>>, s4 |-> <<>>, s5 |-> <<>>, s6 |-> <<>>, s7 |-> <<>>]

AmIdle ==
    [pc |-> "off", start_index |-> 0, VOXEL_SIZE |-> 1, random_points |-> <<>>, k |-> 0,
     consecutive_points_list |-> <<>>, HA_angle |-> <<>>, z_angle |-> <<>>,
     message |-> "", written |-> FALSE, file |-> NoFile]

\* read_conf_file raises: sys.exit(1)
AmReadConfFails ==
    /\ am.pc = "start"
    /\ am' = [am EXCEPT !.pc = "exit", !.message = "Error reading parameter file"]
    /\ UNCHANGED <<ap, tvars>>

\* the eigen_vec files are looked for and loaded, the vectors are aligned
AmLoadField ==
    /\ am.pc = "start"
    /\ IF ~ap.npy_files
       THEN /\ am' = [am EXCEPT
                        !.pc = "exit",
                        !.message = "Exiting due to missing eigen vector files."]
            /\ UNCHANGED vector_field
       ELSE /\ am' = [am EXCEPT
                        !.pc = "sample",
                        !.start_index = IF ap.bin_factor # 0
                                        THEN ap.start_index \div ap.bin_factor
                                        ELSE ap.start_index]
            /\ vector_field' = AlignVectors(vector_field)
    /\ UNCHANGED <<ap, tp, tr>>

\* the mask, the valid voxels and the random seeds
AmSample ==
    /\ am.pc = "sample"
    /\ IF Cardinality(ValidIndices(vector_field)) < ap.num_ini_points
       THEN /\ am' = [am EXCEPT
                        !.pc = "exit",
                        !.message = "Exiting due to insufficient valid points in the mask."]
            /\ UNCHANGED <<tp, tr>>
       ELSE \E random_points \in RandomChoices(ValidIndices(vector_field), ap.num_ini_points) :
              /\ am' = [am EXCEPT !.pc = "trace", !.random_points = random_points, !.k = 1]
              /\ tp' = [start_point |-> random_points[1], num_steps |-> ap.num_steps,
                        segment_length |-> ap.segment_length,
                        angle_threshold |-> ap.angle_threshold]
              /\ tr' = TraceStart(random_points[1])
    /\ UNCHANGED <<ap, vector_field>>

\* find_consecutive_points has returned: the points are shifted by start_index,
\* the streamline is kept or dropped, and the next seed is traced
AmCollect ==
    /\ am.pc = "trace"
    /\ tr.pc = "return"
    /\ LET consecutive_points ==
               [j \in 1 .. Len(tr.consecutive_points) |->
                   <<tr.consecutive_points[j][1] + 10 * am.start_index,
                     tr.consecutive_points[j][2], tr.consecutive_points[j][3]>>]
           list == IF KeepsStreamline(consecutive_points, ap.segment_min_length_threshold)
                   THEN Append(am.consecutive_points_list, consecutive_points)
                   ELSE am.consecutive_points_list
       IN  IF am.k < Len(am.random_points)
           THEN /\ am' = [am EXCEPT !.consecutive_points_list = list, !.k = am.k + 1]
                /\ tp' = [tp EXCEPT !.start_point = am.random_points[am.k + 1]]
                /\ tr' = TraceStart(am.random_points[am.k + 1])
           ELSE /\ am' = [am EXCEPT !.consecutive_points_list = list, !.pc = "attributes"]
                /\ tp' = tp
                /\ tr' = NoTrace
    /\ UNCHANGED <<ap, vector_field>>

\* the HA_angle and z_angle lists
AmAttributes ==
    /\ am.pc = "attributes"
    /\ LET points == Flatten(am.consecutive_points_list)
       IN  am' = [am EXCEPT
                    !.pc = "write",
                    !.HA_angle = [n \in 1 .. Len(points) |->
                                     HAOfPoint(points[n], am.start_index)],
                    !.z_angle = [n \in 1 .. Len(points) |->
                                    ZAngleOfPoint(vector_field, points[n], am.start_index)]]
    /\ UNCHANGED <<ap, tvars>>

\* the voxel size, scale_points, the reordering and write_am_file
AmWrite ==
    /\ am.pc = "write"
    /\ LET voxel_size == IF ap.bin_factor # 0 THEN ap.VOXEL_SIZE * ap.bin_factor
                         ELSE ap.VOXEL_SIZE
           scaled == ReorderPoints(ScalePoints(am.consecutive_points_list, voxel_size))
       IN  am' = [am EXCEPT
                    !.pc = "written",
                    !.VOXEL_SIZE = voxel_size,
                    !.consecutive_points_list = scaled,
                    !.written = TRUE,
                    !.file = WriteAmFile(scaled, am.HA_angle, am.z_angle)]
    /\ UNCHANGED <<ap, tvars>>

(***************************************************************************)
(* The specifications.                                                     *)
(***************************************************************************)
vars == <<ovars, tvars, avars>>

\* the orientation pipeline at rest
OIdle ==
    /\ conf = [IS_VECTORS |-> FALSE, IS_TEST |-> FALSE, OUTPUT_FORMAT |-> "tif",
               RHO |-> 0, N_SLICE_TEST |-> 0, N_MASK |-> NoMaskPath]
    /\ files = {}
    /\ pc = "idle"
    /\ args = [start_index |-> 0, end_index |-> 0]
    /\ run = NoRun
    /\ tasks = NoTasks

\* the export at rest
TIdle ==
    /\ vector_field = [v \in Voxels |-> NaNVec]
    /\ tp = NoArgs
    /\ tr = NoTrace
    /\ ap = [npy_files |-> FALSE, num_ini_points |-> 0, num_steps |-> 0,
             segment_length |-> 0, angle_threshold |-> 0,
             segment_min_length_threshold |-> 0, start_index |-> 0,
             bin_factor |-> 0, VOXEL_SIZE |-> 1]
    /\ am = AmIdle

\* Spec: runs of compute_orientation
Init == OInit /\ TIdle
Next ==
    \/ (\E w \in Windows : StartRun(w[1], w[2])) /\ UNCHANGED <<tvars, avars>>
    \/ (\E w \in Windows : ReadConfFails(w[1], w[2])) /\ UNCHANGED <<tvars, avars>>
    \/ (CheckResume) /\ UNCHANGED <<tvars, avars>>
    \/ (CalculatePadding) /\ UNCHANGED <<tvars, avars>>
    \/ (LoadVolume) /\ UNCHANGED <<tvars, avars>>
    \/ (LoadMask) /\ UNCHANGED <<tvars, avars>>
    \/ (ComputeTensor) /\ UNCHANGED <<tvars, avars>>
    \/ (StripPadding) /\ UNCHANGED <<tvars, avars>>
    \/ (Dispatch) /\ UNCHANGED <<tvars, avars>>
    \/ (\E z \in 0 .. NImg - 1 : TaskBegin(z)) /\ UNCHANGED <<tvars, avars>>
    \/ (\E z \in 0 .. NImg - 1 : TaskRaises(z)) /\ UNCHANGED <<tvars, avars>>
    \/ (\E z \in 0 .. NImg - 1 : TaskPlot(z)) /\ UNCHANGED <<tvars, avars>>
    \/ (\E z \in 0 .. NImg - 1 : TaskWriteImages(z)) /\ UNCHANGED <<tvars, avars>>
    \/ (\E z \in 0 .. NImg - 1 : TaskWriteVector(z)) /\ UNCHANGED <<tvars, avars>>
    \/ (Finish) /\ UNCHANGED <<tvars, avars>>
    \/ (Kill) /\ UNCHANGED <<tvars, avars>>
Spec == Init /\ [][Next]_vars

\* SpecTrace: find_consecutive_points on a field, a seed and its parameters
TraceSeeds == Voxels \cup {<<-1, 1, 1>>, <<Shape[1], 1, 1>>}

InitTrace ==
    /\ OIdle
    /\ vector_field \in Fields
    /\ tp \in [start_point : TraceSeeds, num_steps : 1 .. MaxSteps,
               segment_length : SegmentLengths, angle_threshold : AngleThresholds]
    /\ tr = TraceStart(tp.start_point)
    /\ ap = [npy_files |-> FALSE, num_ini_points |-> 0, num_steps |-> 0,
             segment_length |-> 0, angle_threshold |-> 0,
             segment_min_length_threshold |-> 0, start_index |-> 0,
             bin_factor |-> 0, VOXEL_SIZE |-> 1]
    /\ am = AmIdle
NextTrace == TraceStep /\ UNCHANGED <<ovars, avars>>
SpecTrace == InitTrace /\ [][NextTrace]_vars

\* SpecAm: amira_writer on the eigen_vec files of an output directory
InitAm ==
    /\ OIdle
    /\ vector_field \in AmFields
    /\ tp = NoArgs
    /\ tr = NoTrace
    /\ \E a \in AmArgs :
         ap \in [npy_files : BOOLEAN, num_ini_points : 1 .. MaxIniPoints,
                 num_steps : 1 .. MaxSteps, segment_length : SegmentLengths,
                 angle_threshold : {AmAngleThreshold},
                 segment_min_length_threshold : MinLengths,
                 start_index : {a[1]}, bin_factor : {a[2]}, VOXEL_SIZE : {a[3]}]
    /\ am = [AmIdle EXCEPT !.pc = "start"]
NextAm ==
    \/ AmReadConfFails /\ UNCHANGED ovars
    \/ AmLoadField /\ UNCHANGED ovars
    \/ AmSample /\ UNCHANGED ovars
    \/ TraceStep /\ UNCHANGED <<ovars, avars>>
    \/ AmCollect /\ UNCHANGED ovars
    \/ AmAttributes /\ UNCHANGED ovars
    \/ AmWrite /\ UNCHANGED ovars
SpecAm == InitAm /\ [][NextAm]_vars

(***************************************************************************)
(* Properties of the orientation pipeline (checked under Spec).            *)
(***************************************************************************)
\* the artifacts a run with the current configuration writes for one index:
\* the three angle images, and the vector file when VECTORS is set
RequiredPaths(idx) ==
    WriteImages(idx, conf.OUTPUT_FORMAT, 0)
        \cup (IF conf.IS_VECTORS THEN {WriteVectorField(idx, 0)} ELSE {})

\* every index of the requested window has its complete set of artifacts
WindowComplete ==
    \A idx \in args.start_index .. args.end_index - 1 : RequiredPaths(idx) \subseteq files

\* C1: in non-test mode, when every index of [start_index, end_index) has its
\* complete set of artifacts, the resume check goes straight to DONE: the call
\* never gets past the check to the padding, loading and tensor stages.
C1_ResumeShortCircuit ==
    (pc = "padding" /\ ~conf.IS_TEST) => ~WindowComplete

\* C2: in non-test mode a slice task whose required artifacts all exist is a
\* no-op: it never gets past the exists test to the computation and the
\* writes (a task at "computed" is about to write its files).
C2_NoOpWhenComplete ==
    \A z \in DOMAIN tasks :
        (pc = "running" /\ ~conf.IS_TEST /\ tasks[z].pc = "computed")
            => ~(RequiredPaths(args.start_index + z) \subseteq files)

\* the angle files of one index and one format that exist
AnglesPresent(idx, fmt) == {i \in 1..3 : ImagePath(i, idx, fmt) \in files}

C10_CenterPointOfOwnSlice ==
    \A z \in DOMAIN tasks :
        (pc = "running" /\ ~conf.IS_TEST)
            => tasks[z].center_point
                 = Around(InterpolatePoints(PT_MV, PT_APEX, NImg)[args.start_index + z + 1])

(***************************************************************************)
(* Properties of write_am_file and amira_writer (checked under SpecAm).    *)
(***************************************************************************)
\* the list handed to write_am_file, once the file is written
Written == am.pc = "written"

\* the places (streamline, point) of a list of streamlines
Places(segments) ==
    {pl \in (1 .. Len(segments)) \X (1 .. MaxSteps + 1) : pl[2] <= Len(segments[pl[1]])}

\* C4: for N streamlines of p_1 .. p_N points the written file declares
\* VERTEX = 2N, EDGE = N, POINT = p_1 + ... + p_N, and its @3 section lists
\* p_1 .. p_N in streamline order.
C4_HeaderCounts ==
    Written =>
        LET segments == am.consecutive_points_list
            N == Len(segments)
        IN  /\ am.file.VERTEX = 2 * N
            /\ am.file.EDGE = N
            /\ am.file.POINT = Cardinality(Places(segments))
            /\ Len(am.file.s3) = N
            /\ \A i \in 1 .. N : am.file.s3[i] = Len(segments[i])

\* C4 witness: a file of two streamlines of different lengths was written.
C4_Witness ==
    /\ Written
    /\ Len(am.consecutive_points_list) = 2
    /\ Len(am.consecutive_points_list[1]) # Len(am.consecutive_points_list[2])

\* C5: the @1 section holds two vertices per streamline, as many lines as the
\* declared VERTEX count, and the vertices 2i and 2i+1 (counted from 0) are the
\* first and the last point of streamline i, the ones edge i of @2 joins.
C5_TwoVerticesPerStreamline ==
    Written =>
        LET segments == am.consecutive_points_list
            N == Len(segments)
        IN  /\ Len(am.file.s1) = am.file.VERTEX
            /\ Len(am.file.s2) = N
            /\ \A i \in 0 .. N - 1 :
                 /\ am.file.s2[i + 1] = <<2 * i, 2 * i + 1>>
                 /\ am.file.s1[2 * i + 1] = segments[i + 1][1]
                 /\ am.file.s1[2 * i + 2] = segments[i + 1][Len(segments[i + 1])]

\* the first step from the seed leaves the volume
FirstStepLeaves(field, seed, segment_length) ==
    \E c \in 1..3 :
        LET next == RoundHalfEven(10 * seed[c] + (field[seed][c] * segment_length) \div 2, 10)
        IN  next < 0 \/ next >= Shape[c]

\* the seed lies in the outermost layer of the volume and its vector points
\* out of the volume across that face
EdgeSeedPointingOut(field, seed) ==
    \E c \in 1..3 :
        \/ seed[c] = 0 /\ field[seed][c] < 0
        \/ seed[c] = Shape[c] - 1 /\ field[seed][c] > 0

\* a streamline has just been traced by amira_writer
Traced == am.pc = "trace" /\ tr.pc = "return"

\* C7 as stated: a seed at the volume edge whose vector points outward yields
\* a streamline of exactly 1 point, which amira_writer drops when
\* segment_min_length_threshold > 1.
C7_EdgeSeedYieldsOnePoint ==
    /\ (Traced /\ EdgeSeedPointingOut(vector_field, tp.start_point))
          => Len(tr.consecutive_points) = 1
    /\ \A i \in 1 .. Len(am.consecutive_points_list) :
          ap.segment_min_length_threshold > 1 => Len(am.consecutive_points_list[i]) > 1

\* C7 amended: a valid seed yields a streamline of exactly 1 point exactly when
\* the rounding of seed + vector * segment_length lies outside the volume, and
\* amira_writer keeps no streamline shorter than segment_min_length_threshold.
C7_FirstStepOutYieldsOnePoint ==
    /\ Traced =>
          (Len(tr.consecutive_points) = 1
              <=> FirstStepLeaves(vector_field, tp.start_point, tp.segment_length))
    /\ \A i \in 1 .. Len(am.consecutive_points_list) :
          Len(am.consecutive_points_list[i]) >= ap.segment_min_length_threshold

\* C7 witness: a 1-point streamline from an edge seed was dropped, the
\* threshold being above 1.
C7_Witness ==
    /\ am.pc = "attributes"
    /\ ap.segment_min_length_threshold > 1
    /\ ap.num_ini_points = 1
    /\ EdgeSeedPointingOut(vector_field, am.random_points[1])
    /\ FirstStepLeaves(vector_field, am.random_points[1], ap.segment_length)
    /\ am.consecutive_points_list = <<>>

FewValid == Cardinality(ValidIndices(vector_field)) < ap.num_ini_points

InsufficientPoints == "Exiting due to insufficient valid points in the mask."

\* C8: with fewer valid voxels than num_ini_points amira_writer exits before
\* tracing and without writing a file; otherwise it does not exit for lack of
\* points, and traces from exactly num_ini_points pairwise distinct seeds, all
\* on valid voxels.
C8_SeedsOrFatal ==
    /\ FewValid =>
          /\ am.pc \in {"start", "sample", "exit"}
          /\ tr = NoTrace
          /\ ~am.written
    /\ am.message = InsufficientPoints => (FewValid /\ am.pc = "exit")
    /\ am.pc \in {"trace", "attributes", "write", "written"} =>
          /\ Len(am.random_points) = ap.num_ini_points
          /\ \A i, j \in 1 .. Len(am.random_points) :
                i # j => am.random_points[i] # am.random_points[j]
          /\ \A i \in 1 .. Len(am.random_points) :
                /\ am.random_points[i] \in Voxels
                /\ ~AnyNaN(vector_field[am.random_points[i]])
          /\ am.k \in 1 .. ap.num_ini_points
          /\ am.pc = "trace" =>
                /\ tp.start_point = am.random_points[am.k]
                /\ tr.consecutive_points[1] = [c \in 1..3 |-> 10 * tp.start_point[c]]
          /\ am.pc # "trace" => am.k = ap.num_ini_points

\* C8 witness: both cases, a fatal exit for lack of valid voxels ...
C8_WitnessFatal ==
    /\ am.message = InsufficientPoints
    /\ Cardinality(ValidIndices(vector_field)) = 1

\* ... and C8 witness: a file written from two seeds.
C8_Witness ==
    /\ Written
    /\ Len(am.random_points) = 2
    /\ Cardinality(ValidIndices(vector_field)) > 2

\* the voxel of the point written on a line of @4: (x, y, z) scaled by the
\* voxel size, back to (z, y, x) indices of the loaded volumes
VoxelOfLine(line) ==
    <<TruncTenths(line[3] \div am.VOXEL_SIZE - 10 * am.start_index),
      TruncTenths(line[2] \div am.VOXEL_SIZE),
      TruncTenths(line[1] \div am.VOXEL_SIZE)>>

\* C9: the sections @4, @5, @6, @7 each hold POINT entries, every @5 entry is
\* 1.0, and the k-th entries of @6 and @7 are the helix angle and the z-angle
\* of the point on the k-th line of @4, the points taken streamline by
\* streamline.
C9_PointAttributes ==
    Written =>
        LET segments == am.consecutive_points_list
            f == am.file
        IN  /\ Len(f.s4) = f.POINT
            /\ Len(f.s5) = f.POINT
            /\ Len(f.s6) = f.POINT
            /\ Len(f.s7) = f.POINT
            /\ f.POINT = Cardinality(Places(segments))
            /\ \A pl \in Places(segments) :
                 LET k == Cardinality({q \in Places(segments) :
                                          q[1] < pl[1] \/ (q[1] = pl[1] /\ q[2] <= pl[2])})
                 IN  /\ f.s4[k] = segments[pl[1]][pl[2]]
                     /\ f.s5[k] = "1.0"
                     /\ f.s6[k] = HAVolume(VoxelOfLine(f.s4[k]))
                     /\ LET vector == vector_field[VoxelOfLine(f.s4[k])]
                        IN  f.s7[k] =
                              IF \E c \in 1..3 : vector[c] = NaN
                              THEN <<NaN, NaN>>
                              ELSE <<IF vector[1] < 0 THEN -vector[1] ELSE vector[1],
                                     vector[1] * vector[1] + vector[2] * vector[2]
                                        + vector[3] * vector[3]>>

\* C9 witness: a file of two streamlines, of three points or more in all, whose
\* helix angles are not all the same.
C9_Witness ==
    /\ Written
    /\ Len(am.consecutive_points_list) = 2
    /\ am.file.POINT >= 3
    /\ \E k \in 1 .. Len(am.file.s6) : am.file.s6[k] # am.file.s6[1]

(***************************************************************************)
(* Properties of find_consecutive_points (checked under SpecTrace).        *)
(***************************************************************************)
\* the field has the same valid direction at every voxel
ConstantField == \E d \in Dirs : \A v \in Voxels : vector_field[v] = d

Returned == tr.pc = "return"

\* C6: on a field with the same valid direction at every voxel, a trace from a
\* seed inside the volume never stops on the angle threshold (nor on NaN): it
\* returns num_steps + 1 points unless it stops at a volume edge.
C6_ConstantFieldFullLength ==
    (ConstantField /\ tp.start_point \in Voxels /\ Returned) =>
        /\ tr.stop \in {"num_steps", "next_out_of_bounds"}
        /\ tr.stop = "num_steps" => Len(tr.consecutive_points) = tp.num_steps + 1
        /\ tr.stop = "next_out_of_bounds" => Len(tr.consecutive_points) <= tp.num_steps
        /\ \A j \in 1 .. Len(tr.consecutive_points) :
              InBounds([c \in 1..3 |-> RoundTenths(tr.consecutive_points[j][c])])

\* C6 witness: a full-length streamline of three steps that moved at each step.
C6_Witness ==
    /\ ConstantField
    /\ tp.start_point \in Voxels
    /\ Returned
    /\ tp.num_steps = MaxSteps
    /\ Len(tr.consecutive_points) = tp.num_steps + 1
    /\ \A j \in 1 .. tp.num_steps : tr.consecutive_points[j] # tr.consecutive_points[j + 1]

(***************************************************************************)
(* Further properties of the orientation pipeline (checked under Spec).    *)
(***************************************************************************)
\* the paddings of the current call have been calculated
Padded == pc \in {"load_volume", "mask", "tensor", "strip", "dispatch", "running"}

\* n is the ceiling of RHO, RHO given in halves
IsCeilOf(n, RHO) == 2 * n >= RHO /\ 2 * (n - 1) < RHO

\* m is the smaller of a and b
IsMinOf(m, a, b) == m <= a /\ m <= b /\ (m = a \/ m = b)

\* C11: in non-test mode padding_start = min(ceil(RHO), start_index) and
\* padding_end = min(ceil(RHO), N_img - end_index), both are non-negative, and
\* the padded window [start_index - padding_start, end_index + padding_end)
\* lies inside [0, N_img).
C11_PaddingClamped ==
    (Padded /\ ~conf.IS_TEST) =>
        \E n \in 0 .. conf.RHO + 1 :
            /\ IsCeilOf(n, conf.RHO)
            /\ IsMinOf(run.padding_start, n, args.start_index)
            /\ IsMinOf(run.padding_end, n, NImg - args.end_index)
            /\ run.padding_start >= 0
            /\ run.padding_end >= 0
            /\ args.start_index - run.padding_start >= 0
            /\ args.end_index + run.padding_end <= NImg

\* C11 witness: a window one slice from the start of the volume, RHO above 1:
\* padding_start is clamped to start_index, below ceil(RHO).
C11_Witness ==
    /\ Padded
    /\ ~conf.IS_TEST
    /\ args.start_index = 1
    /\ run.padding_start = 1
    /\ conf.RHO > 2
    /\ run.padding_end < 2

\* the run has a mask and has gone on from the mask stage to the tensor
WentOnWithMask == pc = "tensor" /\ conf.N_MASK > 0

C13_VectorsPointDown ==
    \A z \in DOMAIN tasks : tasks[z].vector_field_slice <= 0

\* the paths the task of local index z writes when it is not skipped
TaskOutputs(z) == RequiredPaths(args.start_index + z)

\* a step of the stage made by the task z alone, adding only paths of the
\* global index start_index + z
StepOfTask(z) ==
    /\ tasks'[z] # tasks[z]
    /\ \A y \in DOMAIN tasks \ {z} : tasks'[y] = tasks[y]
    /\ \A p \in files' \ files : p[2] = args.start_index + z /\ p \in TaskOutputs(z)

\* a step taken while the tasks run leaves the shared arrays as they are, and
\* is the step of one task that writes its own paths only
TaskStepsAreLocal ==
    (pc = "running" /\ pc' = "running") =>
        /\ run' = run
        /\ \E z \in DOMAIN tasks : StepOfTask(z)

\* what each task does is fixed when the tasks are submitted: a task whose
\* angle files existed then returns without writing, every other task ends
\* with all its paths written, and no two tasks share a path
OutcomeFixedAtDispatch ==
    pc = "running" =>
        /\ \A y, z \in DOMAIN tasks : y # z => TaskOutputs(y) \cap TaskOutputs(z) = {}
        /\ \A z \in DOMAIN tasks :
              /\ (tasks[z].existed /\ ~conf.IS_TEST) => tasks[z].pc \in {"pending", "returned"}
              /\ (~tasks[z].existed \/ conf.IS_TEST) => tasks[z].pc # "returned"
              /\ (tasks[z].pc = "done" /\ ~conf.IS_TEST) => TaskOutputs(z) \subseteq files

\* C14: in the slice stage the task of local index z writes only the paths of
\* global index start_index + z, no two tasks write the same path and no task
\* changes the shared arrays, so that the files present when the stage ends
\* do not depend on the order or interleaving of the tasks
C14_TasksIndependent == []OutcomeFixedAtDispatch /\ [][TaskStepsAreLocal]_vars

\* two tasks are in flight at once while a task of higher z than one of them
\* has already written all its files
C14_Witness ==
    /\ pc = "running" /\ ~conf.IS_TEST /\ conf.IS_VECTORS
    /\ \E x, y, z \in DOMAIN tasks :
          /\ tasks[x].pc = "done" /\ tasks[y].pc = "wrote_images"
          /\ tasks[z].pc = "computed" /\ x > y

\* the step the claim describes from a recorded point: the vector at the voxel
\* nearest to the point, times segment_length
StepFrom(point) ==
    DirectionVector(vector_field, [c \in 1..3 |-> RoundTenths(point[c])], tp.segment_length)

\* C15: every recorded point after the seed is the previously recorded point
\* plus vector * segment_length, the vector being read at the voxel nearest to
\* that point, and the position carried into the next step is the recorded
\* point with its fractional part kept
C15_StepsAccumulate ==
    LET points == tr.consecutive_points
    IN  /\ tr.pc = "loop" => tr.current_point = points[Len(points)]
        /\ \A k \in 2 .. Len(points) :
              points[k] = [c \in 1..3 |-> points[k - 1][c] + StepFrom(points[k - 1])[c]]

\* a task of the running stage has raised
SomeTaskRaised == \E z \in DOMAIN tasks : tasks[z].pc = "raised"

\* compute_orientation returns normally: by the resume check, or after the
\* slice stage
ReturnsNormally == pc # "done" /\ pc' = "done"

\* C16: in non-test mode with vector output requested, whatever files existed
\* before the run, when compute_orientation returns normally (no task having
\* failed) every index of the window has its three angle images and its
\* vector file
C16_ReturnLeavesWindowComplete ==
    [][(ReturnsNormally /\ ~SomeTaskRaised /\ ~conf.IS_TEST /\ conf.IS_VECTORS) =>
          \A idx \in args.start_index .. args.end_index - 1 :
              /\ WriteImages(idx, conf.OUTPUT_FORMAT, 0) \subseteq files'
              /\ WriteVectorField(idx, 0) \in files']_vars

\* the voxel of a traced point is inside the volume and holds a valid vector
OnValidVoxel(point) ==
    LET voxel == PointVoxel(point, 0)
    IN  InBounds(voxel) /\ ~AnyNaN(vector_field[voxel])

\* C17: in amira_writer every point of every streamline that
\* find_consecutive_points returns, taken at its integer coordinates, is inside
\* the volume on a voxel whose vector has no NaN component, and no z-angle
\* computed afterwards is NaN
C17_PointsOnValidVoxels ==
    /\ tr.pc = "return" =>
          \A k \in 1 .. Len(tr.consecutive_points) : OnValidVoxel(tr.consecutive_points[k])
    /\ \A n \in 1 .. Len(am.z_angle) : am.z_angle[n] # <<NaN, NaN>>

\* C18: when a slice task has raised during the slice stage, compute_orientation
\* does not go on to report the window as finished, in the pool as in the loop
C18_FailureReachesCaller == [][SomeTaskRaised => pc' # "done"]_vars
====
